---- MODULE Spec2Model ----
(***************************************************************************)
(* A model of phosphor's chain combinator (src/src/algorithm/chain.ts):    *)
(* chain(), ChainIterator.clone() and ChainIterator.next(), over the       *)
(* array-backed iterators that chain() builds from its arguments.          *)
(*                                                                         *)
(* Iterator objects live in a heap and are named by their index in it, so  *)
(* that two chains holding the same index hold the same object: aliasing   *)
(* is visible in the model.  `undefined` is the value Undef.               *)
(***************************************************************************)
EXTENDS Integers, Sequences, FiniteSets, TLC

\* ---------------------------------------------------------------- bounds
MaxSize == 2         \* heights of the scroll area and of the element, in pixels
MaxScroll == 3       \* the content is up to this much higher than the area
MaxThreshold == 1    \* thresholds passed to scrollIfNeeded()
MaxSources == 2      \* at most this many sources are passed to chain()
MaxLen     == 2      \* at most this many elements per source
MaxChains  == 2      \* the original chain and the clones made in its family

\* ------------------------------------------------------------- the values
\* `void 0`: the value next() returns to signal exhaustion, and the unset
\* _active slot.  Object references are positive, so 0 is no reference.
Undef == 0
None  == Undef

\* A null (or missing) argument of chain(): no object at all.
Null == 0 - 1

\* The element at place j of source number i.  chain.ts never inspects a
\* value except to compare it with undefined (line 96), so its behaviour
\* does not depend on which defined values the sources hold: giving every
\* place its own value makes any element lost, repeated or out of order
\* show in the output.
Elem(i, j) == (i - 1) * MaxLen + j

\* The array of k elements that source number i can be.
Array(i, k) == [j \in 1..k |-> Elem(i, j)]

\* ------------------------------------------------ the iterator protocol
\* An array-backed iterator: a read cursor over an immutable backing
\* sequence.  cloneable is FALSE for an iterator whose clone() throws.
\* by is the set of the chains that have invoked next() on the object, each
\* chain named by the heap cell of its own.
ArrayIterator(source, cloneable) ==
    [source |-> source, index |-> 0, cloneable |-> cloneable, by |-> {}]

\* next(): the element under the cursor and the cursor moved past it, or
\* undefined once the cursor is at the end.  An undefined element is
\* returned as it is, and the cursor moves past it.
IterNext(it) ==
    IF it.index >= Len(it.source)
    THEN [it |-> it, value |-> Undef]
    ELSE [it |-> [it EXCEPT !.index = @ + 1], value |-> it.source[it.index + 1]]

\* clone(): a new iterator on the same backing sequence with a copy of the
\* cursor.
IterClone(it) == [it EXCEPT !.by = {}]

\* A heap cell that holds no object.
Free == [source |-> <<>>, index |-> 0, cloneable |-> FALSE, by |-> {}]

\* The elements an iterator has not returned yet.
Rest(it) == SubSeq(it.source, it.index + 1, Len(it.source))

\* ------------------------------------------------------ the chain iterator
\* new ChainIterator(source): _source is the outer iterator (an iterator
\* over references to the sub-iterators), _active is unset and _cloned is
\* false.
ChainIterator(source) == [source |-> source, active |-> None, cloned |-> FALSE]

\* What one call returns: the chain and the heap as the call leaves them,
\* how it ended (a value, exhaustion, or an exception), the value, the
\* number of nested invocations of next() on the chain the call made, and
\* the number of clone() calls it made on sub-iterators.
Ret(ch, h, result, value, depth) ==
    [chain |-> ch, heap |-> h, result |-> result, value |-> value,
     depth |-> depth, made |-> 0]

\* A clone is referenced by the _active slot of the chain that made it and
\* by nothing else, so the object is garbage once that slot is cleared: its
\* cell is reclaimed.  An object of the outer list is never reclaimed.
Release(h, a, slot) == IF a = slot THEN [h EXCEPT ![slot] = Free] ELSE h

\* next() with line 100 returning undefined instead of calling next()
\* again: the end of a sub-iterator is reported as the end of the chain.
RECURSIVE ChainNextNoRecurse(_, _, _)
ChainNextNoRecurse(ch, h, slot) ==
    LET Pull(c, g) ==
            LET r  == IterNext(g[c.active])
                g1 == [g EXCEPT ![c.active] = [r.it EXCEPT !.by = @ \cup {slot}]]
            IN  IF r.value # Undef
                THEN Ret(c, g1, "value", r.value, 1)
                ELSE Ret([c EXCEPT !.active = None], Release(g1, c.active, slot),
                         "exhausted", Undef, 1)
    IN  IF ch.active = None
        THEN LET s  == IterNext(ch.source)
                 c1 == [ch EXCEPT !.source = s.it, !.active = s.value]
             IN  IF s.value = None
                 THEN Ret(c1, h, "exhausted", Undef, 1)
                 ELSE IF ch.cloned
                      THEN IF h[s.value].cloneable
                           THEN Pull([c1 EXCEPT !.active = slot],
                                     [h EXCEPT ![slot] = IterClone(h[s.value])])
                           ELSE Ret(c1, h, "error", Undef, 1)
                      ELSE Pull(c1, h)
        ELSE Pull(ch, h)

\* next() without lines 91-93: a pulled sub-iterator becomes _active as it
\* is, whatever the _cloned flag.
RECURSIVE ChainNextNoDefensive(_, _, _)
ChainNextNoDefensive(ch, h, slot) ==
    LET Pull(c, g) ==
            LET r  == IterNext(g[c.active])
                g1 == [g EXCEPT ![c.active] = [r.it EXCEPT !.by = @ \cup {slot}]]
            IN  IF r.value # Undef
                THEN Ret(c, g1, "value", r.value, 1)
                ELSE LET n == ChainNextNoDefensive([c EXCEPT !.active = None],
                                        Release(g1, c.active, slot), slot)
                     IN  [n EXCEPT !.depth = @ + 1]
    IN  IF ch.active = None
        THEN LET s  == IterNext(ch.source)
                 c1 == [ch EXCEPT !.source = s.it, !.active = s.value]
             IN  IF s.value = None
                 THEN Ret(c1, h, "exhausted", Undef, 1)
                 ELSE Pull(c1, h)
        ELSE Pull(ch, h)

\* next() that puts the outer cursor back at the start when the outer
\* iterator reports exhaustion.
RECURSIVE ChainNextRewind(_, _, _)
ChainNextRewind(ch, h, slot) ==
    LET Pull(c, g) ==
            LET r  == IterNext(g[c.active])
                g1 == [g EXCEPT ![c.active] = [r.it EXCEPT !.by = @ \cup {slot}]]
            IN  IF r.value # Undef
                THEN Ret(c, g1, "value", r.value, 1)
                ELSE LET n == ChainNextRewind([c EXCEPT !.active = None],
                                        Release(g1, c.active, slot), slot)
                     IN  [n EXCEPT !.depth = @ + 1]
    IN  IF ch.active = None
        THEN LET s  == IterNext(ch.source)
                 c1 == [ch EXCEPT !.source = s.it, !.active = s.value]
             IN  IF s.value = None
                 THEN Ret([c1 EXCEPT !.source.index = 0], h, "exhausted", Undef, 1)
                 ELSE IF ch.cloned
                      THEN IF h[s.value].cloneable
                           THEN Pull([c1 EXCEPT !.active = slot],
                                     [h EXCEPT ![slot] = IterClone(h[s.value])])
                           ELSE Ret(c1, h, "error", Undef, 1)
                      ELSE Pull(c1, h)
        ELSE Pull(ch, h)

\* next() that, having read a value, calls next() on the active
\* sub-iterator once more to see whether it has ended.
RECURSIVE ChainNextPeek(_, _, _)
ChainNextPeek(ch, h, slot) ==
    LET Pull(c, g) ==
            LET r  == IterNext(g[c.active])
                g1 == [g EXCEPT ![c.active] = [r.it EXCEPT !.by = @ \cup {slot}]]
            IN  IF r.value # Undef
                THEN LET r2 == IterNext(r.it)
                     IN  Ret(c, [g EXCEPT ![c.active] =
                                     [r2.it EXCEPT !.by = @ \cup {slot}]],
                             "value", r.value, 1)
                ELSE LET n == ChainNextPeek([c EXCEPT !.active = None],
                                        Release(g1, c.active, slot), slot)
                     IN  [n EXCEPT !.depth = @ + 1]
    IN  IF ch.active = None
        THEN LET s  == IterNext(ch.source)
                 c1 == [ch EXCEPT !.source = s.it, !.active = s.value]
             IN  IF s.value = None
                 THEN Ret(c1, h, "exhausted", Undef, 1)
                 ELSE IF ch.cloned
                      THEN IF h[s.value].cloneable
                           THEN Pull([c1 EXCEPT !.active = slot],
                                     [h EXCEPT ![slot] = IterClone(h[s.value])])
                           ELSE Ret(c1, h, "error", Undef, 1)
                      ELSE Pull(c1, h)
        ELSE Pull(ch, h)

\* next() that unsets the active slot as soon as it has read the last
\* element of the active sub-iterator.
RECURSIVE ChainNextEagerClear(_, _, _)
ChainNextEagerClear(ch, h, slot) ==
    LET Pull(c, g) ==
            LET r  == IterNext(g[c.active])
                g1 == [g EXCEPT ![c.active] = [r.it EXCEPT !.by = @ \cup {slot}]]
            IN  IF r.value # Undef
                THEN IF Rest(r.it) = <<>>
                     THEN Ret([c EXCEPT !.active = None],
                              Release(g1, c.active, slot), "value", r.value, 1)
                     ELSE Ret(c, g1, "value", r.value, 1)
                ELSE LET n == ChainNextEagerClear([c EXCEPT !.active = None],
                                        Release(g1, c.active, slot), slot)
                     IN  [n EXCEPT !.depth = @ + 1]
    IN  IF ch.active = None
        THEN LET s  == IterNext(ch.source)
                 c1 == [ch EXCEPT !.source = s.it, !.active = s.value]
             IN  IF s.value = None
                 THEN Ret(c1, h, "exhausted", Undef, 1)
                 ELSE IF ch.cloned
                      THEN IF h[s.value].cloneable
                           THEN Pull([c1 EXCEPT !.active = slot],
                                     [h EXCEPT ![slot] = IterClone(h[s.value])])
                           ELSE Ret(c1, h, "error", Undef, 1)
                      ELSE Pull(c1, h)
        ELSE Pull(ch, h)

\* next() that reads from the sub-iterator it has pulled before it
\* replaces it by a clone.
RECURSIVE ChainNextCloneLate(_, _, _)
ChainNextCloneLate(ch, h, slot) ==
    LET Pull(c, g) ==
            LET r  == IterNext(g[c.active])
                g1 == [g EXCEPT ![c.active] = [r.it EXCEPT !.by = @ \cup {slot}]]
            IN  IF r.value # Undef
                THEN Ret(c, g1, "value", r.value, 1)
                ELSE LET n == ChainNextCloneLate([c EXCEPT !.active = None],
                                        Release(g1, c.active, slot), slot)
                     IN  [n EXCEPT !.depth = @ + 1]
    IN  IF ch.active = None
        THEN LET s  == IterNext(ch.source)
                 c1 == [ch EXCEPT !.source = s.it, !.active = s.value]
             IN  IF s.value = None
                 THEN Ret(c1, h, "exhausted", Undef, 1)
                 ELSE IF ch.cloned
                      THEN LET r  == IterNext(h[s.value])
                               g1 == [h EXCEPT ![s.value] =
                                                  [r.it EXCEPT !.by = @ \cup {slot}],
                                               ![slot] = IterClone(r.it)]
                               c2 == [c1 EXCEPT !.active = slot]
                           IN  IF r.value # Undef
                               THEN [Ret(c2, g1, "value", r.value, 1)
                                        EXCEPT !.made = 1]
                               ELSE LET n == ChainNextCloneLate(
                                                [c2 EXCEPT !.active = None],
                                                Release(g1, slot, slot), slot)
                                    IN  [n EXCEPT !.depth = @ + 1, !.made = @ + 1]
                      ELSE Pull(c1, h)
        ELSE Pull(ch, h)

\* next() that clones every sub-iterator it pulls, whether or not the
\* chain has been cloned.
RECURSIVE ChainNextAlwaysClone(_, _, _)
ChainNextAlwaysClone(ch, h, slot) ==
    LET Pull(c, g) ==
            LET r  == IterNext(g[c.active])
                g1 == [g EXCEPT ![c.active] = [r.it EXCEPT !.by = @ \cup {slot}]]
            IN  IF r.value # Undef
                THEN Ret(c, g1, "value", r.value, 1)
                ELSE LET n == ChainNextAlwaysClone([c EXCEPT !.active = None],
                                        Release(g1, c.active, slot), slot)
                     IN  [n EXCEPT !.depth = @ + 1]
    IN  IF ch.active = None
        THEN LET s  == IterNext(ch.source)
                 c1 == [ch EXCEPT !.source = s.it, !.active = s.value]
             IN  IF s.value = None
                 THEN Ret(c1, h, "exhausted", Undef, 1)
                 ELSE IF h[s.value].cloneable
                      THEN LET p == Pull([c1 EXCEPT !.active = slot],
                                         [h EXCEPT ![slot] = IterClone(h[s.value])])
                           IN  [p EXCEPT !.made = @ + 1]
                      ELSE Ret(c1, h, "error", Undef, 1)
        ELSE Pull(ch, h)

\* next() that, having pulled a sub-iterator, calls itself to read from
\* it.
RECURSIVE ChainNextReenter(_, _, _)
ChainNextReenter(ch, h, slot) ==
    LET Pull(c, g) ==
            LET r  == IterNext(g[c.active])
                g1 == [g EXCEPT ![c.active] = [r.it EXCEPT !.by = @ \cup {slot}]]
            IN  IF r.value # Undef
                THEN Ret(c, g1, "value", r.value, 1)
                ELSE LET n == ChainNextReenter([c EXCEPT !.active = None],
                                        Release(g1, c.active, slot), slot)
                     IN  [n EXCEPT !.depth = @ + 1]
    IN  IF ch.active = None
        THEN LET s  == IterNext(ch.source)
                 c1 == [ch EXCEPT !.source = s.it, !.active = s.value]
             IN  IF s.value = None
                 THEN Ret(c1, h, "exhausted", Undef, 1)
                 ELSE IF ch.cloned
                      THEN IF h[s.value].cloneable
                           THEN LET n == ChainNextReenter(
                                             [c1 EXCEPT !.active = slot],
                                             [h EXCEPT ![slot] = IterClone(h[s.value])],
                                             slot)
                                IN  [n EXCEPT !.depth = @ + 1, !.made = @ + 1]
                           ELSE Ret(c1, h, "error", Undef, 1)
                      ELSE LET n == ChainNextReenter(c1, h, slot)
                           IN  [n EXCEPT !.depth = @ + 1]
        ELSE Pull(ch, h)

\* ChainIterator.next().  slot is the heap cell of the chain: it names the
\* chain, and an object this call allocates is placed in it.
RECURSIVE ChainNext(_, _, _)
ChainNext(ch, h, slot) ==
    LET \* lines 95-100: pull one value from _active; on undefined, unset
        \* _active and call next() again.
        Pull(c, g) ==
            LET r  == IterNext(g[c.active])
                g1 == [g EXCEPT ![c.active] = [r.it EXCEPT !.by = @ \cup {slot}]]
            IN  IF r.value # Undef
                THEN Ret(c, g1, "value", r.value, 1)
                ELSE LET n == ChainNext([c EXCEPT !.active = None],
                                        Release(g1, c.active, slot), slot)
                     IN  [n EXCEPT !.depth = @ + 1]
    IN  IF ch.active = Null
        THEN \* null is not `void 0`: line 95 calls next() on null and throws
             Ret(ch, h, "error", Undef, 1)
        ELSE IF ch.active = None
        THEN \* lines 86-94
             LET s  == IterNext(ch.source)
                 c1 == [ch EXCEPT !.source = s.it, !.active = s.value]
             IN  IF s.value = None
                 THEN Ret(c1, h, "exhausted", Undef, 1)
                 ELSE IF s.value = Null
                 THEN \* line 92 or line 95 calls a method of null and throws
                      Ret(c1, h, "error", Undef, 1)
                 ELSE IF ch.cloned
                      THEN IF h[s.value].cloneable
                           THEN LET p == Pull([c1 EXCEPT !.active = slot],
                                              [h EXCEPT ![slot] = IterClone(h[s.value])])
                                IN  [p EXCEPT !.made = @ + 1]
                           ELSE \* _active.clone() throws; _active keeps
                                \* the object pulled at line 87
                                Ret(c1, h, "error", Undef, 1)
                      ELSE Pull(c1, h)
        ELSE Pull(ch, h)

\* iter() that starts the traversal of the current sub-iterator over, as
\* iter() of an iterable does.
ChainIterRestart(ch, self) == [result |-> self, chain |-> [ch EXCEPT !.active = None]]

\* ChainIterator.iter(), lines 59-61: returns `this`.  self is the
\* reference of the chain; the call returns a reference and leaves the
\* chain as it is.
ChainIter(ch, self) == [result |-> self, chain |-> ch]

\* clone() without `.clone()` at line 73: the returned chain holds the
\* active sub-iterator of the original.
ChainCloneAliased(ch, h, slot) ==
    IF ~ch.source.cloneable
    THEN [ok |-> FALSE, orig |-> ch, result |-> ch, heap |-> h]
    ELSE [ok     |-> TRUE,
          orig   |-> [ch EXCEPT !.cloned = TRUE],
          result |-> [source |-> IterClone(ch.source),
                      active |-> ch.active,
                      cloned |-> TRUE],
          heap   |-> h]

\* clone() without line 75: only the returned chain is flagged.
ChainCloneOneSided(ch, h, slot) ==
    IF ~ch.source.cloneable
    THEN [ok |-> FALSE, orig |-> ch, result |-> ch, heap |-> h]
    ELSE IF ch.active # None /\ ~h[ch.active].cloneable
    THEN [ok |-> FALSE, orig |-> ch, result |-> ch, heap |-> h]
    ELSE [ok     |-> TRUE,
          orig   |-> ch,
          result |-> [source |-> IterClone(ch.source),
                      active |-> IF ch.active = None THEN None ELSE slot,
                      cloned |-> TRUE],
          heap   |-> IF ch.active = None THEN h
                     ELSE [h EXCEPT ![slot] = IterClone(h[ch.active])]]

\* clone() that sets the cloned flag of the chain before it clones the
\* iterators.
ChainCloneFlagFirst(ch, h, slot) ==
    IF ~ch.source.cloneable
    THEN [ok |-> FALSE, orig |-> [ch EXCEPT !.cloned = TRUE], result |-> ch,
          heap |-> h]
    ELSE IF ch.active # None /\ ~h[ch.active].cloneable
    THEN [ok |-> FALSE, orig |-> [ch EXCEPT !.cloned = TRUE], result |-> ch,
          heap |-> h]
    ELSE [ok     |-> TRUE,
          orig   |-> [ch EXCEPT !.cloned = TRUE],
          result |-> [source |-> IterClone(ch.source),
                      active |-> IF ch.active = None THEN None ELSE slot,
                      cloned |-> TRUE],
          heap   |-> IF ch.active = None THEN h
                     ELSE [h EXCEPT ![slot] = IterClone(h[ch.active])]]

\* What a clone() call returns: whether it returned at all, the chain it
\* was called on, the chain it returned, and the heap.
\* ChainIterator.clone(): line 72 clones the outer iterator, line 73 the
\* active sub-iterator if there is one, lines 74-75 set both flags.  An
\* exception at line 72 or 73 leaves `this` as it was.
ChainClone(ch, h, slot) ==
    IF ~ch.source.cloneable
    THEN [ok |-> FALSE, orig |-> ch, result |-> ch, heap |-> h]
    ELSE IF ch.active # None /\ ~h[ch.active].cloneable
    THEN [ok |-> FALSE, orig |-> ch, result |-> ch, heap |-> h]
    ELSE [ok     |-> TRUE,
          orig   |-> [ch EXCEPT !.cloned = TRUE],
          result |-> [source |-> IterClone(ch.source),
                      active |-> IF ch.active = None THEN None ELSE slot,
                      cloned |-> TRUE],
          heap   |-> IF ch.active = None THEN h
                     ELSE [h EXCEPT ![slot] = IterClone(h[ch.active])]]

\* The values next() returns up to its first exhaustion or exception: what
\* the chain yields when it is drained alone from this state.
RECURSIVE Drain(_, _, _)
Drain(ch, h, slot) ==
    LET r == ChainNext(ch, h, slot)
    IN  IF r.result = "value"
        THEN <<r.value>> \o Drain(r.chain, r.heap, slot)
        ELSE <<>>

\* Concatenation of a sequence of sequences.
RECURSIVE Flatten(_)
Flatten(ss) == IF ss = <<>> THEN <<>> ELSE Head(ss) \o Flatten(Tail(ss))

\* The elements left in the chain: those of the active sub-iterator, then
\* those of the sub-iterators the outer iterator has not yielded yet.
Remaining(ch, h) ==
    (IF ch.active = None THEN <<>> ELSE Rest(h[ch.active]))
    \o Flatten([i \in 1..Len(Rest(ch.source)) |-> Rest(h[Rest(ch.source)[i]])])

\* chain() that leaves out the first of its arguments.
chainTail(ids) ==
    ChainIterator([ArrayIterator(ids, TRUE) EXCEPT
                       !.index = IF ids = <<>> THEN 0 ELSE 1])

\* iter(object): the iterator of an iterable, which for an iterator is the
\* iterator itself; an array argument is here already named by the
\* reference of the fresh iterator iter() makes on it.  iter() asks its
\* argument for an iterator, which throws when the argument is null.
iter(object) ==
    IF object = Null THEN [thrown |-> TRUE, it |-> None]
    ELSE [thrown |-> FALSE, it |-> object]

\* What a call that threw leaves in place of a chain.
Thrown == [thrown |-> TRUE]
IsThrown(ch) == "thrown" \in DOMAIN ch

\* chain() that keeps its arguments as they are and leaves iter() to the
\* moment a source is pulled.
chainLazy(objects) == ChainIterator(ArrayIterator(objects, TRUE))

\* chain(...objects): objects.map(iter) is the list of the sub-iterators,
\* made when chain() is called, and iter(...) of that list is the outer
\* iterator, which is array-backed and cloneable.  An exception of iter()
\* is an exception of chain().
chain(objects) ==
    LET its == [i \in 1..Len(objects) |-> iter(objects[i])]
    IN  IF \E i \in 1..Len(its) : its[i].thrown
        THEN Thrown
        ELSE ChainIterator(ArrayIterator([i \in 1..Len(its) |-> its[i].it], TRUE))

\* ------------------------------------------------------------------ state
\* ---------------------------------------------------------------------
\* dom/query.ts.  The document is a scroll area (a viewport of d.height
\* pixels whose content is d.range pixels higher) and one element of
\* d.size pixels at offset d.pos in that content.  Coordinates are client
\* coordinates, in whole pixels.

\* Element.getBoundingClientRect(), as called at lines 39, 90 and 91: the
\* area stays where it is, the element moves up as the area scrolls down.
BoundingClientRect(d, node) ==
    IF node = "area"
    THEN [left |-> d.left, right  |-> d.left + MaxSize,
          top  |-> d.top,  bottom |-> d.top + d.height]
    ELSE [left |-> d.left, right  |-> d.left + MaxSize,
          top  |-> d.top + d.pos - d.scrollTop,
          bottom |-> d.top + d.pos - d.scrollTop + d.size]

\* The assignments to area.scrollTop at lines 93 and 95: the platform keeps
\* the offset inside the scroll range.
SetScrollTop(d, v) ==
    [d EXCEPT !.scrollTop = IF v < 0 THEN 0 ELSE IF v > d.range THEN d.range ELSE v]

\* hitTest() with a closed right edge.
hitTestClosed(d, node, clientX, clientY) ==
    LET rect == BoundingClientRect(d, node)
    IN  /\ clientX >= rect.left
        /\ clientX <= rect.right
        /\ clientY >= rect.top
        /\ clientY < rect.bottom

\* hitTest(node, clientX, clientY), lines 37-46.
hitTest(d, node, clientX, clientY) ==
    LET rect == BoundingClientRect(d, node)
    IN  /\ clientX >= rect.left
        /\ clientX < rect.right
        /\ clientY >= rect.top
        /\ clientY < rect.bottom

\* scrollIfNeeded() that scrolls as soon as the element overflows at all.
scrollIfNeededEager(d, threshold) ==
    LET ar == BoundingClientRect(d, "area")
        er == BoundingClientRect(d, "elem")
    IN  IF er.top < ar.top
        THEN SetScrollTop(d, d.scrollTop - (ar.top - er.top + threshold))
        ELSE IF er.bottom > ar.bottom
        THEN SetScrollTop(d, d.scrollTop + (er.bottom - ar.bottom + threshold))
        ELSE d

\* scrollIfNeeded() that scrolls by the overflow less the threshold.
scrollIfNeededLess(d, threshold) ==
    LET ar == BoundingClientRect(d, "area")
        er == BoundingClientRect(d, "elem")
    IN  IF er.top < (ar.top - threshold)
        THEN SetScrollTop(d, d.scrollTop - (ar.top - er.top - threshold))
        ELSE IF er.bottom > (ar.bottom + threshold)
        THEN SetScrollTop(d, d.scrollTop + (er.bottom - ar.bottom - threshold))
        ELSE d

\* scrollIfNeeded(area, elem, threshold), lines 88-97.
scrollIfNeeded(d, threshold) ==
    LET ar == BoundingClientRect(d, "area")
        er == BoundingClientRect(d, "elem")
    IN  IF er.top < (ar.top - threshold)
        THEN SetScrollTop(d, d.scrollTop - (ar.top - er.top + threshold))
        ELSE IF er.bottom > (ar.bottom + threshold)
        THEN SetScrollTop(d, d.scrollTop + (er.bottom - ar.bottom + threshold))
        ELSE d

VARIABLES
    heap,      \* the sub-iterator objects, by reference; the family's cells
               \* for the clones it makes are the last MaxChains ones
    chains,    \* the ChainIterator instances: the original, then its clones
    out,       \* per chain: the values its next() calls have returned
    done,      \* per chain: some next() call has signalled exhaustion
    again,     \* per chain: next() has been called after that
    last,      \* per chain: how its latest next() call ended
    shared,    \* per chain: a clone() call has succeeded on it or made it
    promise,   \* per chain: out, then the elements left in it, as they
               \* were at the latest clone() that involved it
    taint,     \* per chain: it was returned by a clone() although an
               \* iterator reachable from the cloned chain was not cloneable
    threw,     \* per chain: the latest call on it was a clone() that threw
    alone,     \* what the original yields if it is drained with no clone()
    args,      \* the arguments chain() was called with: references, or Null
    ret,       \* the latest iter() call: the chain it was made on and the
               \* chain it returned, by their numbers
    dom,       \* the document: a scroll area and an element inside it
    call,      \* the latest call of hitTest() or scrollIfNeeded()
    cut,       \* per chain: how many sub-iterators its outer iterator had
               \* yielded when its cloned flag was set
    made,      \* per chain: the clone() calls its next() calls have made
               \* on sub-iterators
    nest       \* per chain: the nesting depth of its latest next() call
               \* and the number of sub-iterators that call found exhausted

vars == <<heap, chains, out, done, again, last, shared, promise, taint, threw,
          alone, args, ret, dom, call, cut, made, nest>>

\* No iter() call has been made.
NoRet == [on |-> 0, result |-> 0]

\* No next() call has been made on the chain.
NoNest == [depth |-> 0, skipped |-> 0]

\* No document is attached, and no function of dom/query.ts has been called.
NoDom == [left |-> 0, top |-> 0, height |-> 0, range |-> 0,
          pos |-> 0, size |-> 0, scrollTop |-> 0]
NoCall == [op |-> "none", node |-> "none", x |-> 0, y |-> 0, threshold |-> 0,
           result |-> FALSE, before |-> NoDom]

\* The heap cell for the objects chain number c allocates.
Slot(c) == Len(heap) - MaxChains + c

\* Some iterator reachable from the chain does not support clone(): the
\* outer iterator, the active sub-iterator, or one not pulled yet.
Unclonable(ch, h) ==
    \/ ~ch.source.cloneable
    \/ ch.active # None /\ ~h[ch.active].cloneable
    \/ \E i \in 1..Len(Rest(ch.source)) : ~h[Rest(ch.source)[i]].cloneable

\* The state after the construction of chain ch over the iterators its.
Setup(its, ch) ==
    /\ heap    = its \o [c \in 1..MaxChains |-> Free]
    /\ chains  = <<ch>>
    /\ out     = << <<>> >>
    /\ done    = <<FALSE>>
    /\ again   = <<FALSE>>
    /\ last    = <<"none">>
    /\ shared  = <<FALSE>>
    /\ promise = << <<>> >>
    /\ taint   = <<FALSE>>
    /\ threw   = <<FALSE>>
    /\ alone   = Drain(ch, its \o [c \in 1..MaxChains |-> Free], Len(its) + 1)
    /\ args    = ch.source.source
    /\ ret     = NoRet
    /\ dom     = NoDom
    /\ call    = NoCall
    /\ cut     = <<0>>
    /\ made    = <<0>>
    /\ nest    = <<NoNest>>

\* The state after a call of chain() that threw: there is no chain.
NoChain(its, objects) ==
    /\ heap    = its \o [c \in 1..MaxChains |-> Free]
    /\ chains  = <<>>
    /\ out     = <<>>
    /\ done    = <<>>
    /\ again   = <<>>
    /\ last    = <<>>
    /\ shared  = <<>>
    /\ promise = <<>>
    /\ taint   = <<>>
    /\ threw   = <<>>
    /\ alone   = <<>>
    /\ args    = objects
    /\ ret     = NoRet
    /\ dom     = NoDom
    /\ call    = NoCall
    /\ cut     = <<>>
    /\ made    = <<>>
    /\ nest    = <<>>

\* The state after the call chain(...objects), the caller's iterators
\* being its.
Construct(its, objects) ==
    LET ch == chain(objects)
    IN  IF IsThrown(ch) THEN NoChain(its, objects) ELSE Setup(its, ch)

\* chain(a1, ..., an) on n arrays of defined values, of any lengths: iter()
\* makes a fresh iterator on each array.
Init ==
    \E n \in 0..MaxSources : \E len \in [1..n -> 0..MaxLen] :
        Setup([i \in 1..n |-> ArrayIterator(Array(i, len[i]), TRUE)],
              chain([i \in 1..n |-> i]))

\* ---------------------------------------------------------------- actions
\* The sub-iterators a next() call that takes the chain from ch to after
\* has called next() on: the one that was active, and those it pulled.
Touched(ch, after) ==
    (IF ch.active = None THEN 0 ELSE 1) + (after.source.index - ch.source.index)

\* A call of next() on chain c.
next(c) ==
    LET r == ChainNext(chains[c], heap, Slot(c))
    IN  /\ chains' = [chains EXCEPT ![c] = r.chain]
        /\ heap'   = r.heap
        /\ out'    = [out EXCEPT ![c] = IF r.result = "value"
                                         THEN Append(@, r.value) ELSE @]
        /\ done'   = [done EXCEPT ![c] = @ \/ r.result = "exhausted"]
        /\ again'  = [again EXCEPT ![c] = done[c]]
        /\ last'   = [last EXCEPT ![c] = r.result]
        /\ made'   = [made EXCEPT ![c] = @ + r.made]
        /\ nest'   = [nest EXCEPT ![c] =
                         [depth   |-> r.depth,
                          skipped |-> Touched(chains[c], r.chain)
                                      - (IF r.result = "value" THEN 1 ELSE 0)]]
        /\ threw'  = [threw EXCEPT ![c] = FALSE]
        /\ UNCHANGED <<shared, promise, taint, alone, args, ret, dom, call, cut>>

\* A call of clone() on chain c; the chain it returns is the next one of
\* the family.
clone(c) ==
    /\ Len(chains) < MaxChains
    /\ LET r   == ChainClone(chains[c], heap, Slot(Len(chains) + 1))
           rem == Remaining(chains[c], heap)
       IN  IF r.ok
           THEN /\ chains'  = Append([chains EXCEPT ![c] = r.orig], r.result)
                /\ heap'    = r.heap
                /\ out'     = Append(out, <<>>)
                /\ done'    = Append(done, FALSE)
                /\ again'   = Append(again, FALSE)
                /\ last'    = Append(last, "none")
                /\ shared'  = Append([shared EXCEPT ![c] = TRUE], TRUE)
                /\ promise' = Append([promise EXCEPT ![c] = out[c] \o rem], rem)
                /\ taint'   = Append(taint, Unclonable(chains[c], heap))
                /\ threw'   = Append([threw EXCEPT ![c] = FALSE], FALSE)
                /\ cut'     = Append([cut EXCEPT ![c] = IF chains[c].cloned THEN @
                                                        ELSE chains[c].source.index],
                                     chains[c].source.index)
                /\ made'    = Append(made, 0)
                /\ nest'    = Append(nest, NoNest)
                /\ UNCHANGED <<alone, args, ret, dom, call>>
           ELSE /\ chains'  = [chains EXCEPT ![c] = r.orig]
                /\ heap'    = r.heap
                /\ threw'   = [threw EXCEPT ![c] = TRUE]
                /\ UNCHANGED <<out, done, again, last, shared, promise, taint, alone,
                             args, ret, dom, call, cut, made, nest>>

Next ==
    \/ \E c \in 1..Len(chains) : next(c)
    \/ \E c \in 1..Len(chains) : clone(c)

Spec == Init /\ [][Next]_vars

\* chain(...) on a list in which iterators are passed as sources: iter()
\* of an iterator is the iterator itself, so the list holds the caller's m
\* iterator objects, and it may name one of them at several places.
InitShared ==
    \E m \in 1..MaxSources : \E len \in [1..m -> 0..MaxLen] :
    \E n \in 0..MaxSources : \E ids \in [1..n -> 1..m] :
        Setup([i \in 1..m |-> ArrayIterator(Array(i, len[i]), TRUE)],
              chain(ids))

SpecShared == InitShared /\ [][Next]_vars

\* chain(a1, ..., an) on arrays in which any element may be undefined.
InitUndef ==
    \E n \in 0..MaxSources : \E len \in [1..n -> 0..MaxLen] :
    \E und \in [1..n -> SUBSET (1..MaxLen)] :
        Setup([i \in 1..n |->
                  ArrayIterator([j \in 1..len[i] |->
                                    IF j \in und[i] THEN Undef
                                    ELSE Elem(i, j)], TRUE)],
              chain([i \in 1..n |-> i]))

SpecUndef == InitUndef /\ [][Next]_vars

\* A chain over iterators of the caller's, any of which may not support
\* clone(); the chain is built by chain() or, over an outer iterator of the
\* caller's that may not support clone() either, by the constructor.
InitNoClone ==
    \E n \in 0..MaxSources : \E len \in [1..n -> 0..MaxLen] :
    \E cl \in [1..n -> BOOLEAN] : \E outer \in BOOLEAN :
        Setup([i \in 1..n |-> ArrayIterator(Array(i, len[i]), cl[i])],
              ChainIterator(ArrayIterator([i \in 1..n |-> i], outer)))

SpecNoClone == InitNoClone /\ [][Next]_vars


\* A call of iter() on chain c.
callIter(c) ==
    LET r == ChainIter(chains[c], c)
    IN  /\ chains' = [chains EXCEPT ![c] = r.chain]
        /\ ret'    = [on |-> c, result |-> r.result]
        /\ UNCHANGED <<heap, out, done, again, last, shared, promise, taint,
                       threw, alone, args, dom, call, cut, made, nest>>

NextIter ==
    \/ \E c \in 1..Len(chains) : next(c)
    \/ \E c \in 1..Len(chains) : clone(c)
    \/ \E c \in 1..Len(chains) : callIter(c)

\* chain(a1, ..., an) on n arrays of one length, of defined values.
InitIter ==
    \E n \in 0..MaxSources : \E k \in 0..MaxLen :
        Setup([i \in 1..n |-> ArrayIterator(Array(i, k), TRUE)],
              chain([i \in 1..n |-> i]))

\* Chains over arrays, with iter() called on them at any moment.
SpecIter == InitIter /\ [][NextIter]_vars

\* A document with no chain: the area with its corner at (0,0) or at
\* (1,1), of any height, scrolled to any offset of its range; the element
\* anywhere in the area's content.
InitDom ==
    /\ heap = <<>> /\ chains = <<>> /\ out = <<>> /\ done = <<>>
    /\ again = <<>> /\ last = <<>> /\ shared = <<>> /\ promise = <<>>
    /\ taint = <<>> /\ threw = <<>> /\ alone = <<>> /\ args = <<>>
    /\ ret = NoRet /\ cut = <<>> /\ made = <<>> /\ nest = <<>>
    /\ call = NoCall
    /\ \E corner \in 0..1, height \in 1..MaxSize,
          range \in 0..MaxScroll, size \in 0..MaxSize :
          \E pos \in 0..(height + range - size), scrollTop \in 0..range :
             /\ size <= height + range
             /\ dom = [left |-> corner, top |-> corner, height |-> height,
                       range |-> range, pos |-> pos, size |-> size,
                       scrollTop |-> scrollTop]

\* A call hitTest(node, x, y).
callHitTest(node, x, y) ==
    /\ call' = [NoCall EXCEPT !.op = "hitTest", !.node = node, !.x = x, !.y = y,
                              !.result = hitTest(dom, node, x, y),
                              !.before = dom]
    /\ UNCHANGED <<heap, chains, out, done, again, last, shared, promise,
                   taint, threw, alone, args, ret, dom, cut, made, nest>>

\* A call scrollIfNeeded(area, elem, threshold).
callScrollIfNeeded(threshold) ==
    /\ dom'  = scrollIfNeeded(dom, threshold)
    /\ call' = [NoCall EXCEPT !.op = "scrollIfNeeded", !.threshold = threshold,
                              !.before = dom]
    /\ UNCHANGED <<heap, chains, out, done, again, last, shared, promise,
                   taint, threw, alone, args, ret, cut, made, nest>>

\* The points a hit test is made at: inside the area's rectangle, on its
\* edges and one pixel around it.
Xs == (0 - 1)..(MaxSize + 2)
Ys == (0 - 1)..(MaxSize + 2)

NextDom ==
    \/ \E node \in {"area", "elem"}, x \in Xs, y \in Ys : callHitTest(node, x, y)
    \/ \E threshold \in 0..MaxThreshold : callScrollIfNeeded(threshold)

SpecDom == InitDom /\ [][NextDom]_vars

\* chain(...) on a list of arrays in which any argument may be null.
InitNull ==
    \E n \in 0..MaxSources : \E len \in [1..n -> 0..MaxLen] :
    \E nul \in SUBSET (1..n) :
        Construct([i \in 1..n |-> ArrayIterator(Array(i, len[i]), TRUE)],
                  [i \in 1..n |-> IF i \in nul THEN Null ELSE i])

SpecNull == InitNull /\ [][Next]_vars

\* ------------------------------------------------------------- the claims
IsPrefix(a, b) == Len(a) <= Len(b) /\ a = SubSeq(b, 1, Len(a))

\* The list of sub-iterator references that chain() was given: the backing
\* array of the original's outer iterator, which no call changes.
Objects == chains[1].source.source

\* The elements of the sources, in the order of the sources.
AllElements == Flatten([i \in 1..Len(Objects) |-> heap[Objects[i]].source])

\* The elements chain number c is to return in all: every element of the
\* sources for the original, the elements left at its creation for a clone.
Total(c) == IF c = 1 THEN Len(AllElements) ELSE Len(promise[c])

\* C1: the values that next() returns on chain(sources), up to the
\* exhaustion signal, are the concatenation of the sources' elements: at
\* every moment a prefix of it, and the whole of it once exhaustion has been
\* signalled.
C1_Concatenation ==
    /\ IsPrefix(out[1], AllElements)
    /\ done[1] => out[1] = AllElements

\* Two sources of two elements each have been drained to the end.
C1_Witness ==
    /\ Len(Objects) = 2
    /\ \A i \in 1..2 : Len(heap[Objects[i]].source) = 2
    /\ done[1] /\ out[1] = AllElements

\* C2: after a clone(), under every interleaving of next() calls, the chain
\* that was cloned and the chain that clone() returned each return the
\* elements that were left in the cloned chain at the moment of the clone.
C2_CloneIndependence ==
    \A c \in 1..Len(chains) :
        shared[c] => /\ IsPrefix(out[c], promise[c])
                     /\ done[c] => out[c] = promise[c]

\* The clone was taken inside the first of two sources of two elements,
\* after one element, and both chains have since been drained.
C2_Witness ==
    /\ Len(chains) = 2 /\ Len(Objects) = 2
    /\ done[1] /\ Len(out[1]) = 4
    /\ done[2] /\ Len(out[2]) = 3 /\ out[2] = Tail(out[1])

\* C3: once next() has signalled exhaustion on a chain, every later next()
\* on that chain signals exhaustion too: it neither returns a value nor
\* throws.
C3_ExhaustionIsFinal ==
    \A c \in 1..Len(chains) : done[c] => last[c] = "exhausted"

\* next() has been called again on an exhausted chain that had returned
\* values and had been cloned.
C3_Witness ==
    \E c \in 1..Len(chains) : again[c] /\ shared[c] /\ out[c] # <<>>

\* C4: when a next() call signals exhaustion, no source holds an element
\* the chain has not returned: the active slot is unset and nothing is left
\* in the sources the outer iterator had still to yield.  The empty
\* sub-iterators are skipped inside the call.
C4_ExhaustionOnlyAtTheEnd ==
    \A c \in 1..Len(chains) :
        last[c] = "exhausted" =>
            /\ chains[c].active = None
            /\ Remaining(chains[c], heap) = <<>>
            /\ chains[c].source.index = Len(Objects)
            /\ Len(out[c]) = Total(c)

\* The first next() call skipped two empty sources and signalled
\* exhaustion.
C4_Witness ==
    /\ Len(Objects) = 2 /\ AllElements = <<>>
    /\ last[1] = "exhausted" /\ ~again[1]

C6_CloneLeavesOriginal == done[1] => out[1] = alone

\* C7: a clone() on a chain from which an iterator that does not support
\* clone() is reachable (the outer iterator, the active sub-iterator or a
\* sub-iterator not pulled yet) throws: no chain is ever returned by such a
\* call.
C7_CloneFailsAtTheCall == \A c \in 1..Len(chains) : ~taint[c]

\* C8: an undefined element is a value like any other and does not end its
\* source: once the chain has signalled exhaustion, every defined element of
\* every source has been returned.
C8_UndefinedIsAValue ==
    done[1] =>
        \A i \in 1..Len(Objects) :
            \A j \in 1..Len(heap[Objects[i]].source) :
                heap[Objects[i]].source[j] # Undef =>
                    \E k \in 1..Len(out[1]) :
                        out[1][k] = heap[Objects[i]].source[j]


\* C9: the cloned flag of a chain is true exactly when a clone() has
\* succeeded on the chain or returned it: false after construction, true on
\* both chains after a clone(), and never false again.
C9_ClonedFlag ==
    \A c \in 1..Len(chains) : chains[c].cloned = shared[c]

\* Both chains of a clone() are flagged and have since been drained.
C9_Witness ==
    /\ Len(chains) = 2
    /\ chains[1].cloned /\ chains[2].cloned
    /\ done[1] /\ done[2] /\ out[2] # <<>>

\* C10: iteration is pull-only.  No next() has been invoked on a
\* sub-iterator that the outer iterator of a chain has still to yield, and
\* a chain has read one element per value it has returned: the values
\* returned and the elements left make up the elements there were.
C10_PullOnly ==
    \A c \in 1..Len(chains) :
        /\ \A i \in 1..Len(Rest(chains[c].source)) :
               LET it == heap[Rest(chains[c].source)[i]]
               IN  it.by = {} /\ it.index = 0
        /\ Len(out[c]) + Len(Remaining(chains[c], heap)) = Total(c)

\* One value has been returned from the first of two sources of two
\* elements: one element has been read from it and none from the second.
C10_Witness ==
    /\ Len(out[1]) = 1 /\ Len(Objects) = 2 /\ Len(AllElements) = 4
    /\ heap[Objects[1]].index = 1
    /\ heap[Objects[2]].by = {}

C12_IterReturnsThis ==
    [][ret' # ret => /\ ret'.result = ret'.on
                     /\ chains' = chains
                     /\ heap' = heap]_vars

\* iter() has been called on a clone that is inside a sub-iterator.
C12_Witness ==
    /\ ret.on = 2 /\ ret.result = 2
    /\ chains[2].cloned /\ chains[2].active # None /\ out[2] # <<>>

\* C13: hitTest(node, x, y) is true exactly when x lies in left..right-1
\* and y in top..bottom-1 of the node's bounding rectangle: the left and
\* top edges are inside, the right and bottom edges are outside.
C13_HitTestHalfOpen ==
    call.op = "hitTest" =>
        LET rect == BoundingClientRect(call.before, call.node)
        IN  call.result <=> /\ call.x \in rect.left..(rect.right - 1)
                            /\ call.y \in rect.top..(rect.bottom - 1)

\* The last pixel inside the element was hit, the element being scrolled.
C13_Witness ==
    /\ call.op = "hitTest" /\ call.node = "elem" /\ call.result
    /\ dom.scrollTop > 0 /\ dom.size > 0
    /\ call.x = BoundingClientRect(dom, "elem").right - 1
    /\ call.y = BoundingClientRect(dom, "elem").bottom - 1

\* The rectangles of the latest scrollIfNeeded() call: the area's, the
\* element's before the call, and how the call found the element.
Ar == BoundingClientRect(call.before, "area")
Was == BoundingClientRect(call.before, "elem")
Above == Was.top < Ar.top - call.threshold
Below == ~Above /\ Was.bottom > Ar.bottom + call.threshold
Adjusted == call.op = "scrollIfNeeded" /\ dom.scrollTop # call.before.scrollTop

\* C14, as stated: when scrollIfNeeded() adjusts, the revealed edge of the
\* element ends exactly at the tolerance limit, the top edge at the area's
\* top minus threshold, the bottom edge at the area's bottom plus threshold.
C14_MinimalAdjustment ==
    Adjusted =>
        LET er == BoundingClientRect(dom, "elem")
        IN  /\ Above => er.top = Ar.top - call.threshold
            /\ Below => er.bottom = Ar.bottom + call.threshold

\* C14, amended: when scrollIfNeeded() adjusts, it scrolls by the overflow
\* plus threshold, so the revealed edge of the element ends threshold
\* pixels inside the area (top edge at the area's top plus threshold,
\* bottom edge at the area's bottom minus threshold), or as near to that
\* as the scroll range allows when the offset stops at one of its ends.
C14_AdjustmentPastTheEdge ==
    Adjusted =>
        LET er   == BoundingClientRect(dom, "elem")
            up   == (Ar.top - Was.top) + call.threshold
            down == (Was.bottom - Ar.bottom) + call.threshold
        IN  /\ Above \/ Below
            /\ Above =>
                 IF call.before.scrollTop - up >= 0
                 THEN /\ dom.scrollTop = call.before.scrollTop - up
                      /\ er.top = Ar.top + call.threshold
                 ELSE dom.scrollTop = 0
            /\ Below =>
                 IF call.before.scrollTop + down <= dom.range
                 THEN /\ dom.scrollTop = call.before.scrollTop + down
                      /\ er.bottom = Ar.bottom - call.threshold
                 ELSE dom.scrollTop = dom.range

\* An element below the area by more than a positive threshold was
\* revealed, the scroll range allowing the whole adjustment.
C14_Witness ==
    /\ Adjusted /\ Below /\ call.threshold > 0
    /\ BoundingClientRect(dom, "elem").bottom = Ar.bottom - call.threshold
    /\ BoundingClientRect(dom, "elem").bottom < Ar.bottom + call.threshold

\* C15: scrollIfNeeded() leaves the scroll offset as it is when the
\* element's top is at most threshold above the area's top and its bottom
\* at most threshold below the area's bottom.
C15_NoOpWithinTolerance ==
    (/\ call.op = "scrollIfNeeded"
     /\ Was.top >= Ar.top - call.threshold
     /\ Was.bottom <= Ar.bottom + call.threshold) => dom = call.before

\* The element overflowed the area, within a positive threshold, and the
\* call left the offset alone.
C15_Witness ==
    /\ call.op = "scrollIfNeeded" /\ call.threshold > 0
    /\ Was.top < Ar.top \/ Was.bottom > Ar.bottom
    /\ Was.top >= Ar.top - call.threshold
    /\ Was.bottom <= Ar.bottom + call.threshold
    /\ dom = call.before

\* The outer iterator of chain c has yielded all its sub-iterators.
OuterAtEnd(c) == chains[c].source.index = Len(chains[c].source.source)

\* C16: the active slot follows its state machine.  It is unset on a new
\* chain; after a next() call that returned a value it holds the
\* sub-iterator that produced the value; after a next() call that
\* signalled exhaustion it is unset and the outer iterator is exhausted;
\* and a chain that has signalled exhaustion stays in that state, which is
\* the only one a call leaves the chain in with the slot unset.
C16_ActiveSlot ==
    \A c \in 1..Len(chains) :
        LET a == chains[c].active
        IN  /\ (c = 1 /\ last[c] = "none") => a = None
            /\ last[c] = "value" =>
                   /\ a # None
                   /\ heap[a].index >= 1
                   /\ heap[a].source[heap[a].index] = out[c][Len(out[c])]
            /\ last[c] = "exhausted" => a = None /\ OuterAtEnd(c)
            /\ done[c] => a = None /\ OuterAtEnd(c)
            /\ (a = None /\ last[c] # "none") => done[c]

\* A chain returned the last element of a source and still holds that
\* source's iterator, while another chain of the family has reached the
\* terminal state and has been called again there.
C16_Witness ==
    \E c, d \in 1..Len(chains) :
        /\ last[c] = "value" /\ chains[c].active # None
        /\ Rest(heap[chains[c].active]) = <<>>
        /\ done[d] /\ again[d] /\ out[d] # <<>>

\* C17: once the cloned flag of a chain is set, a sub-iterator that its
\* next() pulls is replaced by a clone before it becomes active: the active
\* slot of a chain that has pulled since holds an object the chain made
\* itself.  So the sub-iterators that the outer list holds at the
\* positions not yet pulled at the first clone() stay as they were: no
\* chain has called next() on them and no chain holds them as active.
C17_PulledAreCloned ==
    /\ \A c \in 1..Len(chains) :
          (/\ chains[c].cloned
           /\ chains[c].source.index > cut[c]
           /\ chains[c].active # None) => chains[c].active = Slot(c)
    /\ chains[1].cloned =>
          \A p \in (cut[1] + 1)..Len(Objects) :
              /\ heap[Objects[p]].by = {}
              /\ heap[Objects[p]].index = 0
              /\ \A c \in 1..Len(chains) : chains[c].active # Objects[p]

\* The clone was taken inside the first source; the original and the
\* clone have since both returned an element of the second source, whose
\* iterator in the outer list is still at its start.
C17_Witness ==
    /\ Len(chains) = 2 /\ Len(Objects) = 2 /\ cut[1] = 1
    /\ chains[1].active = Slot(1) /\ chains[2].active = Slot(2)
    /\ last[1] = "value" /\ last[2] = "value"
    /\ heap[Slot(1)].index >= 1 /\ heap[Slot(2)].index >= 1
    /\ heap[Objects[2]].index = 0

\* C18: as long as clone() has not been called on a chain, its next()
\* calls have made no clone() call on a sub-iterator, and its active
\* sub-iterator is the very object the outer iterator yielded last.
C18_NoCloneBeforeClone ==
    \A c \in 1..Len(chains) :
        ~shared[c] =>
            /\ made[c] = 0
            /\ chains[c].active # None =>
                   chains[c].active = Objects[chains[c].source.index]

\* A chain that was never cloned has pulled both of two sources and
\* returned all their elements.
C18_Witness ==
    /\ Len(chains) = 1 /\ ~shared[1] /\ Len(Objects) = 2
    /\ chains[1].active = Objects[2]
    /\ Len(out[1]) = 2 * MaxLen /\ made[1] = 0

\* C19: every next() call returns a value or exhaustion, and the nesting
\* depth of the next() invocations inside it is at most one more than the
\* number of exhausted sub-iterators it skipped, whatever the length of
\* the chain and the number of elements returned before.
C19_BoundedNesting ==
    \A c \in 1..Len(chains) :
        last[c] # "none" =>
            /\ last[c] \in {"value", "exhausted"}
            /\ nest[c].depth >= 1
            /\ nest[c].depth <= nest[c].skipped + 1

\* After two elements, one call found the active sub-iterator exhausted,
\* pulled an empty one, and signalled exhaustion, three invocations deep.
C19_Witness ==
    \E c \in 1..Len(chains) :
        /\ Len(out[c]) = 2 /\ last[c] = "exhausted" /\ ~again[c]
        /\ nest[c].skipped = 2 /\ nest[c].depth = 3

\* C20: a clone() call that throws, because the outer iterator or the
\* active sub-iterator cannot be cloned, leaves everything as it was: the
\* cloned flag, the outer cursor and the active slot of the chain, every
\* other chain and every sub-iterator; so the chain still has the same
\* elements to return.
C20_FailedCloneChangesNothing ==
    [][\A c \in 1..Len(chains) :
          (~threw[c] /\ threw'[c]) =>
              /\ chains' = chains
              /\ heap' = heap
              /\ Remaining(chains'[c], heap') = Remaining(chains[c], heap)]_vars

\* clone() has thrown on a chain that was never cloned, inside a
\* sub-iterator that cannot be cloned and has elements left.
C20_Witness ==
    \E c \in 1..Len(chains) :
        /\ threw[c] /\ ~chains[c].cloned /\ out[c] # <<>>
        /\ chains[c].source.cloneable
        /\ chains[c].active # None /\ ~heap[chains[c].active].cloneable
        /\ Remaining(chains[c], heap) # <<>>

====
